---- MODULE Spec2Model ----
(***************************************************************************)
(* Model of the value types of etib-corp/utility:                          *)
(*   - utility::math::Rectangle<int>  (headers/utility/math/rectangle.hpp) *)
(*   - utility::math::Vector<int, N>     (headers/utility/math/vector.hpp) *)
(*   - utility::Color<uint8_t> and utility::Color<int> (headers/color.hpp) *)
(* Each type has its own specifications (SpecRectangle, SpecGeometry,      *)
(* SpecVector, SpecVectorPair, SpecColor); the variables of the other      *)
(* types stay at their initial value.                                      *)
(***************************************************************************)
EXTENDS Integers, Sequences, FiniteSets, TLC

VARIABLES
  rect,      \* the Rectangle object (record position/size) or NoRect
  made,      \* the Rectangle returned by the last scaled()/translated() call
  vec,       \* the Vector object (sequence of its components)
  operand,   \* a second Vector object, passed as the argument of binary calls
  ret,       \* the value (boolean, number or Vector) returned by the last call
  ctype,     \* the component type Color is instantiated with
  self,      \* the Color object the member functions are called on
  other,     \* a second Color object, passed as the argument of binary calls
  result,    \* the Color returned by the last const member function
  stype,     \* the Type Singleton is instantiated with
  singleton, \* the static local of getInstance (record instance), or NoSingleton
  pc,        \* where each thread stands in its call of getInstance
  logger,    \* Loggable::_logger: a logger, or nullptr
  delivered, \* the calls the last call of a Loggable made on loggers
  srect,     \* the scalar-field utility::Rectangle object, or NoScalarRect
  smade,     \* the utility::Rectangle returned by its last scaled()/translated()
  sthrown,   \* the exception the last call on srect ended with, or "none"
  floggers,  \* the FileLogger objects: stream and path, or NoFileLogger
  written,   \* the number of lines written to each file
  opened,    \* the number of open streams on each file
  thrown,    \* the exception the last call ended with, or "none"
  lastOp,    \* the name of the last call
  args       \* the arguments of the last call

vars == <<rect, made, vec, operand, ret, ctype, self, other, result,
          stype, singleton, pc, logger, delivered, srect, smade, sthrown,
          floggers, written, opened, thrown, lastOp, args>>

rectVars == <<rect, made>>
colorVars == <<ctype, self, other, result>>
vectorVars == <<vec, operand>>
singletonVars == <<stype, singleton, pc>>

loggableVars == <<logger, delivered>>

\* The variables of the classes that hold no value type.
scalarVars == <<srect, smade, sthrown>>
fileVars == <<floggers, written, opened>>

\* The variables of the classes other than Vector, Color and math::Rectangle.
serviceVars == <<singletonVars, loggableVars, scalarVars, fileVars>>

(***************************************************************************)
(* Bounds of the model.                                                    *)
(***************************************************************************)
MaxCoord == 1       \* rectangle coordinates and offsets lie in -MaxCoord..MaxCoord
MaxSize == 3        \* rectangle widths and heights are at most MaxSize
MaxNeg == 1         \* negative widths and heights passed in go down to -MaxNeg
MaxFactor == 3      \* scale factors lie in -1..MaxFactor
GridStep == 128     \* colour components are sampled every GridStep, and at 255
MaxExcess == 1      \* out-of-range inputs of Color<int>: up to MaxExcess outside [0,255]
MaxDim == 3         \* vectors have 2..MaxDim components
MaxComp == 2        \* vector components and scalars lie in -MaxComp..MaxComp
MaxIndex == 4       \* indexes passed to operator[] lie in 0..MaxIndex
MaxData == 20       \* the data held by a singleton instance lies in 0..MaxData
NumThreads == 2     \* threads calling getInstance
NumLoggers == 3     \* Logger objects a Loggable can be given
MaxMsg == 3         \* log messages are 1..MaxMsg
NumFiles == 2       \* files a FileLogger can be opened on
MaxLines == 1       \* at most MaxLines lines are written to a file

Coords == (0 - MaxCoord)..MaxCoord
Dims == (0 - MaxNeg)..MaxSize
Factors == (0 - 1)..MaxFactor

(***************************************************************************)
(* The classes that hold no value type, before they are used.              *)
(***************************************************************************)
Threads == 1..NumThreads

\* The static local of getInstance before the first call reaches it.
NoSingleton == [none |-> TRUE]

\* No thread has called getInstance.
SingletonUnused ==
  /\ stype = "int"
  /\ singleton = NoSingleton
  /\ pc = [t \in Threads |-> "idle"]

\* A null Logger *.
nullptr == 0

Loggers == 1..NumLoggers

\* No Loggable has been constructed.
LoggableUnused ==
  /\ logger = nullptr
  /\ delivered = <<>>

\* No utility::Rectangle object.
NoScalarRect == [none |-> TRUE]

\* No utility::Rectangle has been constructed.
ScalarUnused ==
  /\ srect = NoScalarRect
  /\ smade = NoScalarRect
  /\ sthrown = "none"

\* The two places a FileLogger object can be constructed in.
Slots == {"first", "second"}

Files == 1..NumFiles

\* No FileLogger object.
NoFileLogger == [none |-> TRUE]

\* No FileLogger has been constructed, and the files are empty.
FileLoggerUnused ==
  /\ floggers = [s \in Slots |-> NoFileLogger]
  /\ written = [f \in Files |-> 0]
  /\ opened = [f \in Files |-> 0]

ServicesUnused ==
  SingletonUnused /\ LoggableUnused /\ ScalarUnused /\ FileLoggerUnused

(***************************************************************************)
(* C++ integer arithmetic.                                                 *)
(***************************************************************************)
\* Integer division of C++: truncation towards zero.
CDiv(a, b) ==
  LET abs(n) == IF n >= 0 THEN n ELSE 0 - n
      q == abs(a) \div abs(b)
  IN  IF (a < 0) = (b < 0) THEN q ELSE 0 - q

(***************************************************************************)
(* utility::math::Vector<Type, 2> as used by Rectangle.                    *)
(***************************************************************************)
\* operator[] with a valid index: component `index` (0-based).
At(v, index) == v[index + 1]

\* Vector({a, b})
Vec2(a, b) == <<a, b>>

(***************************************************************************)
(* utility::math::Rectangle<int>                                           *)
(***************************************************************************)
NoRect == [none |-> TRUE]

\* No value was returned.
NoValue == [none |-> TRUE]

Rect(x, y, w, h) == [position |-> Vec2(x, y), size |-> Vec2(w, h)]

x(r) == At(r.position, 0)
y(r) == At(r.position, 1)
width(r) == At(r.size, 0)
height(r) == At(r.size, 1)
right(r) == At(r.position, 0) + At(r.size, 0)
bottom(r) == At(r.position, 1) + At(r.size, 1)
centerX(r) == At(r.position, 0) + CDiv(At(r.size, 0), 2)
centerY(r) == At(r.position, 1) + CDiv(At(r.size, 1), 2)

\* The rectangle stays inside the box of the model.
InBox(r) ==
  /\ x(r) \in Coords /\ y(r) \in Coords
  /\ width(r) <= MaxSize /\ height(r) <= MaxSize

\* Mutant: the two comparisons joined by && instead of ||.
NegativeSize_BothNegative(w, h) == w < 0 /\ h < 0

\* The check of the constructors and of setSize.
NegativeSize(w, h) == w < 0 \/ h < 0

\* Mutant: the comparison is off by one and lets -1 through.
NegativeDimension_OffByOne(d) == d < 0 - 1

\* The check of setWidth and setHeight.
NegativeDimension(d) == d < 0

\* A behaviour constructs its rectangle first: no rectangle exists yet.
NotConstructed == rect = NoRect /\ lastOp = "start"

\* Every call of SpecRectangle leaves the Color objects alone.
RectFrame == UNCHANGED <<colorVars, vectorVars, serviceVars>>

\* The call returns nothing: what an earlier call returned is gone.
ReturnsNothing == made' = NoRect /\ ret' = NoValue

\* Rectangle()
DefaultRectangle ==
  /\ NotConstructed
  /\ rect' = Rect(0, 0, 0, 0)
  /\ thrown' = "none"
  /\ lastOp' = "Rectangle()"
  /\ args' = <<>>
  /\ ReturnsNothing
  /\ RectFrame

\* Rectangle(Vector position, Vector size): the members are initialised, then
\* the size is checked; a throwing constructor leaves no object.
RectangleVec ==
  /\ NotConstructed
  /\ \E position \in Coords \X Coords, size \in Dims \X Dims :
       /\ IF NegativeSize(At(size, 0), At(size, 1))
            THEN /\ thrown' = "invalid_argument"
                 /\ rect' = NoRect
            ELSE /\ thrown' = "none"
                 /\ rect' = [position |-> position, size |-> size]
       /\ args' = <<position, size>>
  /\ lastOp' = "Rectangle(position,size)"
  /\ ReturnsNothing
  /\ RectFrame

\* Rectangle(Type x, Type y, Type width, Type height)
RectangleXYWH ==
  /\ NotConstructed
  /\ \E px \in Coords, py \in Coords, w \in Dims, h \in Dims :
       /\ IF NegativeSize(w, h)
            THEN /\ thrown' = "invalid_argument"
                 /\ rect' = NoRect
            ELSE /\ thrown' = "none"
                 /\ rect' = Rect(px, py, w, h)
       /\ args' = <<px, py, w, h>>
  /\ lastOp' = "Rectangle(x,y,width,height)"
  /\ ReturnsNothing
  /\ RectFrame

\* setPosition(position)
setPosition ==
  /\ rect # NoRect
  /\ \E position \in Coords \X Coords :
       /\ rect' = [rect EXCEPT !.position = position]
       /\ args' = <<position>>
  /\ thrown' = "none"
  /\ lastOp' = "setPosition"
  /\ ReturnsNothing
  /\ RectFrame

\* setSize(size)
setSize ==
  /\ rect # NoRect
  /\ \E size \in Dims \X Dims :
       /\ IF NegativeSize(At(size, 0), At(size, 1))
            THEN /\ thrown' = "invalid_argument"
                 /\ rect' = rect
            ELSE /\ thrown' = "none"
                 /\ rect' = [rect EXCEPT !.size = size]
       /\ args' = <<size>>
  /\ lastOp' = "setSize"
  /\ ReturnsNothing
  /\ RectFrame

\* Mutant: the index is wrong and the value lands in the Y-coordinate.
setX_WritesY ==
  /\ rect # NoRect
  /\ \E v \in Coords :
       /\ rect' = [rect EXCEPT !.position[2] = v]
       /\ args' = <<v>>
  /\ thrown' = "none"
  /\ lastOp' = "setX"
  /\ ReturnsNothing
  /\ RectFrame

\* setX(x)
setX ==
  /\ rect # NoRect
  /\ \E v \in Coords :
       /\ rect' = [rect EXCEPT !.position[1] = v]
       /\ args' = <<v>>
  /\ thrown' = "none"
  /\ lastOp' = "setX"
  /\ ReturnsNothing
  /\ RectFrame

\* setY(y)
setY ==
  /\ rect # NoRect
  /\ \E v \in Coords :
       /\ rect' = [rect EXCEPT !.position[2] = v]
       /\ args' = <<v>>
  /\ thrown' = "none"
  /\ lastOp' = "setY"
  /\ ReturnsNothing
  /\ RectFrame

\* setWidth(width)
setWidth ==
  /\ rect # NoRect
  /\ \E v \in Dims :
       /\ IF NegativeDimension(v)
            THEN /\ thrown' = "invalid_argument"
                 /\ rect' = rect
            ELSE /\ thrown' = "none"
                 /\ rect' = [rect EXCEPT !.size[1] = v]
       /\ args' = <<v>>
  /\ lastOp' = "setWidth"
  /\ ReturnsNothing
  /\ RectFrame

\* setHeight(height)
setHeight ==
  /\ rect # NoRect
  /\ \E v \in Dims :
       /\ IF NegativeDimension(v)
            THEN /\ thrown' = "invalid_argument"
                 /\ rect' = rect
            ELSE /\ thrown' = "none"
                 /\ rect' = [rect EXCEPT !.size[2] = v]
       /\ args' = <<v>>
  /\ lastOp' = "setHeight"
  /\ ReturnsNothing
  /\ RectFrame

\* translate(dx, dy)
translate ==
  /\ rect # NoRect
  /\ \E dx \in Coords, dy \in Coords :
       /\ rect' = [rect EXCEPT !.position[1] = @ + dx, !.position[2] = @ + dy]
       /\ InBox(rect')
       /\ args' = <<dx, dy>>
  /\ thrown' = "none"
  /\ lastOp' = "translate"
  /\ ReturnsNothing
  /\ RectFrame

\* Mutant: zero is rejected as well.
NegativeFactor_RejectsZero(factor) == factor <= 0

\* The check of scale and scaled.
NegativeFactor(factor) == factor < 0

\* Mutant: the position is not recomputed around the center.
ScaledInPlace_KeepsPosition(r, factor) ==
  LET w == At(r.size, 0) * factor
      h == At(r.size, 1) * factor
  IN  [position |-> r.position, size |-> Vec2(w, h)]

\* The rectangle scale(factor) leaves behind when factor >= 0.
ScaledInPlace(r, factor) ==
  LET cx == centerX(r)
      cy == centerY(r)
      w == At(r.size, 0) * factor
      h == At(r.size, 1) * factor
  IN  [position |-> Vec2(cx - CDiv(w, 2), cy - CDiv(h, 2)), size |-> Vec2(w, h)]

\* scale(factor)
scale ==
  /\ rect # NoRect
  /\ \E factor \in Factors :
       /\ IF NegativeFactor(factor)
            THEN /\ thrown' = "invalid_argument"
                 /\ rect' = rect
            ELSE /\ thrown' = "none"
                 /\ rect' = ScaledInPlace(rect, factor)
                 /\ InBox(rect')
       /\ args' = <<factor>>
  /\ lastOp' = "scale"
  /\ ReturnsNothing
  /\ RectFrame

\* The value of the expression Rectangle(x, y, width, height): the object, or
\* NoRect when the constructor throws.
Constructed(px, py, w, h) ==
  IF NegativeSize(w, h) THEN NoRect ELSE Rect(px, py, w, h)

\* Mutant: the new rectangle keeps the top left corner, not the center.
Scaled_KeepsCorner(r, factor) ==
  Constructed(At(r.position, 0), At(r.position, 1),
              At(r.size, 0) * factor, At(r.size, 1) * factor)

\* What scaled(factor) returns when factor >= 0.
Scaled(r, factor) ==
  LET cx == centerX(r)
      cy == centerY(r)
      newWidth == At(r.size, 0) * factor
      newHeight == At(r.size, 1) * factor
  IN  Constructed(cx - CDiv(newWidth, 2), cy - CDiv(newHeight, 2),
                  newWidth, newHeight)

\* scaled(factor)
scaled ==
  /\ rect # NoRect
  /\ \E factor \in Factors :
       /\ IF NegativeFactor(factor)
            THEN /\ thrown' = "invalid_argument"
                 /\ made' = NoRect
            ELSE /\ made' = Scaled(rect, factor)
                 /\ thrown' = IF made' = NoRect THEN "invalid_argument"
                                               ELSE "none"
       /\ args' = <<factor>>
  /\ lastOp' = "scaled"
  /\ ret' = NoValue
  /\ UNCHANGED rect
  /\ RectFrame

NoColor == [none |-> TRUE]

\* No Vector object.
NoVector == <<>>

InitRectangle ==
  /\ rect = NoRect
  /\ made = NoRect
  /\ ServicesUnused
  /\ vec = NoVector
  /\ operand = NoVector
  /\ ret = NoValue
  /\ ctype = "int"
  /\ self = NoColor
  /\ other = NoColor
  /\ result = NoColor
  /\ thrown = "none"
  /\ lastOp = "start"
  /\ args = <<>>

NextRectangle ==
  \/ DefaultRectangle
  \/ RectangleVec
  \/ RectangleXYWH
  \/ setPosition
  \/ setSize
  \/ setX
  \/ setY
  \/ setWidth
  \/ setHeight
  \/ translate
  \/ scale
  \/ scaled

SpecRectangle == InitRectangle /\ [][NextRectangle]_vars

(***************************************************************************)
(* Properties of Rectangle                                                 *)
(***************************************************************************)
\* C1: whatever sequence of successful and failed constructor, setter,
\* translate and scale calls has run, a rectangle that exists has
\* width() >= 0 and height() >= 0.
C1_SizeNeverNegative ==
  rect # NoRect => width(rect) >= 0 /\ height(rect) >= 0

\* A size setter has just failed on a rectangle with a positive width.
C1_Witness ==
  /\ rect # NoRect
  /\ lastOp \in {"setWidth", "setHeight", "setSize"}
  /\ thrown = "invalid_argument"
  /\ width(rect) > 0

RectConstructors == {"Rectangle(position,size)", "Rectangle(x,y,width,height)"}

\* The width and the height a constructor or setSize call was given.
GivenWidth(name, a) ==
  IF name = "Rectangle(position,size)" THEN At(a[2], 0)
  ELSE IF name = "Rectangle(x,y,width,height)" THEN a[3]
  ELSE At(a[1], 0)
GivenHeight(name, a) ==
  IF name = "Rectangle(position,size)" THEN At(a[2], 1)
  ELSE IF name = "Rectangle(x,y,width,height)" THEN a[4]
  ELSE At(a[1], 1)

\* C10: a negative width or height is rejected with invalid_argument: a
\* constructor given one throws and leaves no object; setWidth, setHeight and
\* setSize given one throw and leave position and size as they were, setSize
\* also when only one of the two components is negative.
C10_NegativeRejected ==
  [][/\ (/\ lastOp' \in RectConstructors
         /\ (GivenWidth(lastOp', args') < 0 \/ GivenHeight(lastOp', args') < 0))
        => (thrown' = "invalid_argument" /\ rect' = NoRect)
     /\ (/\ lastOp' \in {"setWidth", "setHeight"}
         /\ args'[1] < 0)
        => (thrown' = "invalid_argument" /\ rect' = rect)
     /\ (/\ lastOp' = "setSize"
         /\ (GivenWidth(lastOp', args') < 0 \/ GivenHeight(lastOp', args') < 0))
        => (thrown' = "invalid_argument" /\ rect' = rect)
    ]_vars

\* setSize has just been given a negative height next to a valid width that
\* differs from the current one, and the rectangle still has its size.
C10_Witness ==
  /\ rect # NoRect
  /\ lastOp = "setSize"
  /\ GivenWidth(lastOp, args) >= 0
  /\ GivenWidth(lastOp, args) # width(rect)
  /\ GivenHeight(lastOp, args) < 0
  /\ thrown = "invalid_argument"

\* C11: scale(factor) and scaled(factor) with factor < 0 end with
\* invalid_argument and leave position and size as they were; with
\* factor >= 0, zero included, they do not fail.
C11_NegativeFactorRejected ==
  [][lastOp' \in {"scale", "scaled"} =>
       IF args'[1] < 0
         THEN thrown' = "invalid_argument" /\ rect' = rect
         ELSE thrown' = "none"
    ]_vars

\* scale has just been refused a negative factor on a rectangle of positive
\* width and height.
C11_Witness ==
  /\ rect # NoRect
  /\ lastOp = "scale"
  /\ args[1] < 0
  /\ thrown = "invalid_argument"
  /\ width(rect) > 0 /\ height(rect) > 0

\* C12: for factor >= 0, centerX() and centerY() after scale(factor) equal
\* those before, and scaled(factor) has the centerX() and centerY() of the
\* receiver; width and height become the old ones times factor.
C12_ScalingKeepsCenter ==
  [][/\ (lastOp' = "scale" /\ args'[1] >= 0) =>
          /\ centerX(rect') = centerX(rect)
          /\ centerY(rect') = centerY(rect)
          /\ width(rect') = width(rect) * args'[1]
          /\ height(rect') = height(rect) * args'[1]
     /\ (lastOp' = "scaled" /\ args'[1] >= 0) =>
          /\ centerX(made') = centerX(rect)
          /\ centerY(made') = centerY(rect)
          /\ width(made') = width(rect) * args'[1]
          /\ height(made') = height(rect) * args'[1]
    ]_vars

\* scale has just multiplied an odd width by a factor above 1, which moved
\* the left edge.
C12_Witness ==
  /\ rect # NoRect
  /\ lastOp = "scale"
  /\ args[1] > 1
  /\ width(rect) = args[1]
  /\ height(rect) = 0
  /\ x(rect) # centerX(rect)

\* C17: setX, setY, setPosition and translate leave width and height as they
\* were, translate adding dx to x and dy to y; setWidth, setHeight and setSize
\* leave x and y as they were; setX leaves y, setY leaves x, setWidth leaves
\* the height and setHeight leaves the width as it was.
C17_PositionAndSizeIndependent ==
  [][/\ lastOp' \in {"setX", "setY", "setPosition", "translate"} =>
          (width(rect') = width(rect) /\ height(rect') = height(rect))
     /\ lastOp' = "translate" =>
          (x(rect') = x(rect) + args'[1] /\ y(rect') = y(rect) + args'[2])
     /\ lastOp' \in {"setWidth", "setHeight", "setSize"} =>
          (x(rect') = x(rect) /\ y(rect') = y(rect))
     /\ lastOp' = "setX" => y(rect') = y(rect)
     /\ lastOp' = "setY" => x(rect') = x(rect)
     /\ lastOp' = "setWidth" => height(rect') = height(rect)
     /\ lastOp' = "setHeight" => width(rect') = width(rect)
    ]_vars

\* translate has just moved a rectangle of positive width and height by two
\* different non-zero offsets.
C17_Witness ==
  /\ rect # NoRect
  /\ lastOp = "translate"
  /\ args[1] # 0 /\ args[2] # 0 /\ args[1] # args[2]
  /\ width(rect) > 0 /\ height(rect) > 0 /\ width(rect) # height(rect)

(***************************************************************************)
(* The const member functions of Rectangle<int>.  They leave the receiver  *)
(* as it is, so SpecGeometry constructs a rectangle and applies one of     *)
(* them to it (translated once more to what it returned).                  *)
(***************************************************************************)
\* The rectangles inside the box of the model.
BoxRects ==
  {Rect(px, py, w, h) : px \in Coords, py \in Coords,
                        w \in 0..MaxSize, h \in 0..MaxSize}

\* The coordinates of the points passed to contains: one beyond the box.
PointCoords == (0 - MaxCoord - 1)..(MaxCoord + MaxSize + 1)

\* Mutant: the right edge is excluded.
Contains_RightEdgeExcluded(r, point) ==
  /\ At(point, 0) >= At(r.position, 0) /\ At(point, 0) < right(r)
  /\ At(point, 1) >= At(r.position, 1) /\ At(point, 1) <= bottom(r)

\* contains(point)
Contains(r, point) ==
  /\ At(point, 0) >= At(r.position, 0) /\ At(point, 0) <= right(r)
  /\ At(point, 1) >= At(r.position, 1) /\ At(point, 1) <= bottom(r)

\* Mutant: rectangles that only touch count as separated.
Intersects_TouchingSeparated(r, o) ==
  ~(\/ At(r.position, 0) >= right(o) \/ right(r) <= At(o.position, 0)
    \/ At(r.position, 1) >= bottom(o) \/ bottom(r) <= At(o.position, 1))

\* intersects(other)
Intersects(r, o) ==
  ~(\/ At(r.position, 0) > right(o) \/ right(r) < At(o.position, 0)
    \/ At(r.position, 1) > bottom(o) \/ bottom(r) < At(o.position, 1))

\* Mutant: the left edge of other is compared where its right edge should be.
ContainsRectangle_LeftEdgeTwice(r, o) ==
  /\ At(o.position, 0) >= At(r.position, 0) /\ At(o.position, 0) <= right(r)
  /\ At(o.position, 1) >= At(r.position, 1) /\ bottom(o) <= bottom(r)

\* containsRectangle(other)
ContainsRectangle(r, o) ==
  /\ At(o.position, 0) >= At(r.position, 0) /\ right(o) <= right(r)
  /\ At(o.position, 1) >= At(r.position, 1) /\ bottom(o) <= bottom(r)

\* Vector::operator==
VectorEquals(v, w) == \A i \in DOMAIN v : ~(v[i] # w[i])

\* Rectangle::operator==
Equals(r, o) == VectorEquals(r.position, o.position) /\ VectorEquals(r.size, o.size)

\* Vector::operator-() const
Negated(v) == [i \in DOMAIN v |-> 0 - v[i]]

\* Mutant: the width is passed for the height as well.
Translated_WidthTwice(r, offset) ==
  Constructed(At(r.position, 0) + At(offset, 0),
              At(r.position, 1) + At(offset, 1),
              At(r.size, 0), At(r.size, 0))

\* translated(offset)
Translated(r, offset) ==
  Constructed(At(r.position, 0) + At(offset, 0),
              At(r.position, 1) + At(offset, 1),
              At(r.size, 0), At(r.size, 1))

\* The rectangle has just been constructed; nothing was called on it yet.
Fresh == rect # NoRect /\ lastOp = "Rectangle(x,y,width,height)"

\* A const member function returned the value v.
RectReturned(name, a, v) ==
  /\ lastOp' = name
  /\ args' = a
  /\ ret' = v
  /\ made' = NoRect
  /\ thrown' = "none"
  /\ UNCHANGED rect
  /\ RectFrame

\* A const member function returned the Rectangle r, or threw constructing it.
RectMade(name, a, r) ==
  /\ lastOp' = name
  /\ args' = a
  /\ made' = r
  /\ ret' = NoValue
  /\ thrown' = IF r = NoRect THEN "invalid_argument" ELSE "none"
  /\ UNCHANGED rect
  /\ RectFrame

\* contains(point)
contains ==
  /\ Fresh
  /\ \E point \in PointCoords \X PointCoords :
       RectReturned("contains", <<point>>, Contains(rect, point))

\* intersects(other)
intersects ==
  /\ Fresh
  /\ \E o \in BoxRects :
       RectReturned("intersects", <<o>>, Intersects(rect, o))

\* Mutant: receiver and argument are exchanged.
containsRectangle_ArgumentsExchanged ==
  /\ Fresh
  /\ \E o \in BoxRects :
       RectReturned("containsRectangle", <<o>>, ContainsRectangle(o, rect))

\* containsRectangle(other)
containsRectangle ==
  /\ Fresh
  /\ \E o \in BoxRects :
       RectReturned("containsRectangle", <<o>>, ContainsRectangle(rect, o))

\* translated(offset)
translated ==
  /\ Fresh
  /\ \E offset \in Coords \X Coords :
       RectMade("translated", <<offset>>, Translated(rect, offset))

\* translated(offset).translated(-offset): the second call, on the rectangle
\* the first one returned.
translatedBack ==
  /\ lastOp = "translated"
  /\ made # NoRect
  /\ RectMade("translated.translated", args,
              Translated(made, Negated(args[1])))

\* A rectangle has been constructed by Rectangle(x, y, width, height).
InitGeometry ==
  /\ \E px \in Coords, py \in Coords, w \in 0..MaxSize, h \in 0..MaxSize :
       /\ rect = Constructed(px, py, w, h)
       /\ args = <<px, py, w, h>>
  /\ lastOp = "Rectangle(x,y,width,height)"
  /\ made = NoRect
  /\ ServicesUnused
  /\ vec = NoVector
  /\ operand = NoVector
  /\ ret = NoValue
  /\ ctype = "int"
  /\ self = NoColor
  /\ other = NoColor
  /\ result = NoColor
  /\ thrown = "none"

NextGeometry ==
  \/ contains
  \/ intersects
  \/ containsRectangle
  \/ translated
  \/ translatedBack

SpecGeometry == InitGeometry /\ [][NextGeometry]_vars

\* C13: r.contains(p) is true exactly when r.x() <= p.x <= r.right() and
\* r.y() <= p.y <= r.bottom(); points on an edge or a corner are contained.
C13_ContainsPoint ==
  lastOp = "contains" =>
    LET px == args[1][1]
        py == args[1][2]
    IN  /\ ret = (/\ x(rect) <= px /\ px <= x(rect) + width(rect)
                  /\ y(rect) <= py /\ py <= y(rect) + height(rect))
        /\ (/\ px \in {x(rect), x(rect) + width(rect)}
            /\ py \in {y(rect), y(rect) + height(rect)}) => ret = TRUE

\* contains has been asked about the bottom right corner of a rectangle of
\* positive width and height.
C13_Witness ==
  /\ lastOp = "contains"
  /\ width(rect) > 0 /\ height(rect) > 0
  /\ args[1] = <<right(rect), bottom(rect)>>
  /\ ret = TRUE

\* a and b are strictly separated along the x axis or along the y axis.
Separated(a, b) ==
  \/ x(a) > x(b) + width(b) \/ x(a) + width(a) < x(b)
  \/ y(a) > y(b) + height(b) \/ y(a) + height(a) < y(b)

\* C14: a.intersects(b) is false exactly when a and b are strictly separated
\* along the x axis or the y axis; rectangles that only touch intersect; and
\* a.intersects(b) == b.intersects(a).
C14_Intersects ==
  lastOp = "intersects" =>
    /\ ret = ~Separated(rect, args[1])
    /\ ret = Intersects(args[1], rect)

\* intersects has been asked about a rectangle that only touches the
\* receiver, at the receiver's bottom right corner.
C14_Witness ==
  /\ lastOp = "intersects"
  /\ width(rect) > 0 /\ height(rect) > 0
  /\ width(args[1]) > 0 /\ height(args[1]) > 0
  /\ x(args[1]) = right(rect) /\ y(args[1]) = bottom(rect)
  /\ ret = TRUE

\* C15: a.containsRectangle(b) is true exactly when b.x >= a.x,
\* b.right <= a.right, b.y >= a.y and b.bottom <= a.bottom; every rectangle
\* contains itself, and two rectangles that contain each other have equal
\* position and size.
C15_ContainsRectangle ==
  lastOp = "containsRectangle" =>
    LET a == rect
        b == args[1]
    IN  /\ ret = (/\ x(b) >= x(a) /\ x(b) + width(b) <= x(a) + width(a)
                  /\ y(b) >= y(a) /\ y(b) + height(b) <= y(a) + height(a))
        /\ b = a => ret = TRUE
        /\ (ret = TRUE /\ ContainsRectangle(b, a)) => Equals(a, b)

\* containsRectangle has been asked about a smaller rectangle that shares the
\* right and the bottom edge of the receiver.
C15_Witness ==
  /\ lastOp = "containsRectangle"
  /\ width(args[1]) > 0 /\ width(args[1]) < width(rect)
  /\ height(args[1]) > 0 /\ height(args[1]) < height(rect)
  /\ right(args[1]) = right(rect) /\ bottom(args[1]) = bottom(rect)
  /\ ret = TRUE

\* C16: r.translated(d).translated(-d) == r, and a call of translated leaves
\* the position and size of r as they were.
C16_TranslatedRoundTrip ==
  [][/\ lastOp' \in {"translated", "translated.translated"} => rect' = rect
     /\ lastOp' = "translated.translated" => Equals(made', rect)
    ]_vars

\* A rectangle of different width and height has been translated by an offset
\* with two different non-zero components, and back.
C16_Witness ==
  /\ lastOp = "translated.translated"
  /\ args[1][1] # 0 /\ args[1][2] # 0 /\ args[1][1] # args[1][2]
  /\ width(rect) > 0 /\ height(rect) > 0 /\ width(rect) # height(rect)
  /\ made = rect

\* C28: for factor >= 0, scale(factor) on a copy of r gives a rectangle == to
\* r.scaled(factor); scaled leaves r unchanged; scale(1) leaves the rectangle
\* unchanged and scale(0) gives a zero-size rectangle at the former center.
C28_ScaleAgreesWithScaled ==
  [][/\ (lastOp' = "scale" /\ args'[1] >= 0) =>
          /\ Equals(rect', Scaled(rect, args'[1]))
          /\ args'[1] = 1 => rect' = rect
          /\ args'[1] = 0 =>
               /\ width(rect') = 0 /\ height(rect') = 0
               /\ x(rect') = centerX(rect) /\ y(rect') = centerY(rect)
     /\ (lastOp' = "scaled" /\ args'[1] >= 0) =>
          Equals(made', ScaledInPlace(rect, args'[1]))
     /\ lastOp' = "scaled" => rect' = rect
    ]_vars

\* scaled(2) has returned a rectangle whose left and top edges differ from
\* those of the receiver.
C28_Witness ==
  /\ lastOp = "scaled"
  /\ args = <<2>>
  /\ made # NoRect
  /\ x(made) # x(rect) /\ y(made) # y(rect)
  /\ width(made) = 2 * width(rect)

\* C29: if a.containsRectangle(b) then a.intersects(b), every point b
\* contains is contained in a, and every rectangle b contains is contained in
\* a (containsRectangle is transitive).
C29_ContainmentConsistent ==
  (lastOp = "containsRectangle" /\ ret = TRUE) =>
    LET a == rect
        b == args[1]
    IN  /\ Intersects(a, b)
        /\ \A px \in PointCoords, py \in PointCoords :
             Contains(b, Vec2(px, py)) => Contains(a, Vec2(px, py))
        /\ \A c \in BoxRects :
             ContainsRectangle(b, c) => ContainsRectangle(a, c)

\* A rectangle has been found to contain a smaller one of positive size that
\* touches none of its edges.
C29_Witness ==
  /\ lastOp = "containsRectangle"
  /\ ret = TRUE
  /\ width(args[1]) > 0 /\ height(args[1]) > 0
  /\ x(args[1]) > x(rect) /\ right(args[1]) < right(rect)
  /\ y(args[1]) > y(rect) /\ bottom(args[1]) < bottom(rect)

(***************************************************************************)
(* utility::math::Vector<int, Dimension>: indexed access, division by a    *)
(* scalar and normalization.  The components are small enough that no      *)
(* arithmetic of magnitude() overflows.                                    *)
(***************************************************************************)
Dimensions == 2..MaxDim
Comps == (0 - MaxComp)..MaxComp
\* size_t index
Indexes == 0..MaxIndex

\* The template parameter Dimension of the vector v.
Dimension(v) == Len(v)

\* Mutant: the last component is out of range as well.
IndexOutOfRange_LastRejected(v, index) == index >= Dimension(v) - 1

\* The test of operator[]: index >= Dimension.
IndexOutOfRange(v, index) == index >= Dimension(v)

\* Mutant: a negative scalar is rejected as well.
DivisionByZero_RejectsNegative(scalar) == scalar <= 0

\* The test of operator/ and operator/=: scalar == Type{}.
DivisionByZero(scalar) == scalar = 0

\* The loop of operator/ and operator/=: every component divided by scalar.
Divided(v, scalar) == [i \in DOMAIN v |-> CDiv(v[i], scalar)]

\* std::sqrt of a non-negative int, converted back to int.
Sqrt(n) == CHOOSE r \in 0..n : r * r <= n /\ (r + 1) * (r + 1) > n

RECURSIVE SumOfSquares(_, _)
\* The loop of magnitude(): sum += _components[i] * _components[i] for the
\* first n components.
SumOfSquares(v, n) ==
  IF n = 0 THEN 0 ELSE SumOfSquares(v, n - 1) + v[n] * v[n]

\* magnitude()
Magnitude(v) == Sqrt(SumOfSquares(v, Dimension(v)))

\* Mutant: a magnitude of one is refused as well.
ZeroMagnitude_Tolerance(mag) == mag <= 1

\* The test of normalized() and normalize(): mag == Type{}.
ZeroMagnitude(mag) == mag = 0

VectorFrame == UNCHANGED <<rectVars, colorVars, serviceVars>>

\* A member function of Vector returned the value v.
VectorReturned(name, a, v) ==
  /\ lastOp' = name
  /\ args' = a
  /\ ret' = v
  /\ thrown' = "none"
  /\ UNCHANGED operand
  /\ VectorFrame

\* A member function of Vector threw the exception e.
VectorThrew(name, a, e) ==
  /\ lastOp' = name
  /\ args' = a
  /\ ret' = NoValue
  /\ thrown' = e
  /\ UNCHANGED <<vec, operand>>
  /\ VectorFrame

\* v[index] on a const vector
OperatorIndexConst ==
  \E index \in Indexes :
    IF IndexOutOfRange(vec, index)
    THEN VectorThrew("operator[] const", <<index>>, "out_of_range")
    ELSE /\ VectorReturned("operator[] const", <<index>>, At(vec, index))
         /\ UNCHANGED vec

\* v[index] = value
OperatorIndex ==
  \E index \in Indexes, value \in Comps :
    IF IndexOutOfRange(vec, index)
    THEN VectorThrew("operator[]", <<index, value>>, "out_of_range")
    ELSE /\ vec' = [vec EXCEPT ![index + 1] = value]
         /\ VectorReturned("operator[]", <<index, value>>, NoValue)

\* v / scalar
OperatorDivide ==
  \E scalar \in Comps :
    IF DivisionByZero(scalar)
    THEN VectorThrew("operator/", <<scalar>>, "invalid_argument")
    ELSE /\ VectorReturned("operator/", <<scalar>>, Divided(vec, scalar))
         /\ UNCHANGED vec

\* v /= scalar
OperatorDivideAssign ==
  \E scalar \in Comps :
    IF DivisionByZero(scalar)
    THEN VectorThrew("operator/=", <<scalar>>, "invalid_argument")
    ELSE /\ vec' = Divided(vec, scalar)
         /\ VectorReturned("operator/=", <<scalar>>, NoValue)

\* v.normalized()
normalized ==
  LET mag == Magnitude(vec)
  IN  IF ZeroMagnitude(mag)
      THEN VectorThrew("normalized", <<>>, "runtime_error")
      ELSE /\ VectorReturned("normalized", <<>>, Divided(vec, mag))
           /\ UNCHANGED vec

\* v.normalize()
normalize ==
  LET mag == Magnitude(vec)
  IN  IF ZeroMagnitude(mag)
      THEN VectorThrew("normalize", <<>>, "runtime_error")
      ELSE /\ vec' = Divided(vec, mag)
           /\ VectorReturned("normalize", <<>>, NoValue)

\* A vector has been constructed from an initializer list of Dimension values.
InitVector ==
  /\ \E n \in Dimensions : vec \in [1..n -> Comps]
  /\ operand = NoVector
  /\ args = <<vec>>
  /\ lastOp = "Vector(values)"
  /\ ret = NoValue
  /\ rect = NoRect
  /\ made = NoRect
  /\ ServicesUnused
  /\ ctype = "int"
  /\ self = NoColor
  /\ other = NoColor
  /\ result = NoColor
  /\ thrown = "none"

NextVector ==
  \/ OperatorIndexConst
  \/ OperatorIndex
  \/ OperatorDivide
  \/ OperatorDivideAssign
  \/ normalized
  \/ normalize

SpecVector == InitVector /\ [][NextVector]_vars

\* C18: reading or writing v[index] fails with an out_of_range error exactly
\* when index >= Dimension and otherwise refers to component index; a failed
\* access changes no component and a valid write changes only that component.
C18_IndexedAccess ==
  [][/\ lastOp' \in {"operator[] const", "operator[]"} =>
          /\ (thrown' = "out_of_range") = (args'[1] >= Len(vec))
          /\ thrown' \in {"none", "out_of_range"}
          /\ thrown' = "out_of_range" => vec' = vec
     /\ (lastOp' = "operator[] const" /\ thrown' = "none") =>
          /\ ret' = vec[args'[1] + 1]
          /\ vec' = vec
     /\ (lastOp' = "operator[]" /\ thrown' = "none") =>
          /\ Len(vec') = Len(vec)
          /\ vec'[args'[1] + 1] = args'[2]
          /\ \A i \in 1..Len(vec) : i # args'[1] + 1 => vec'[i] = vec[i]
    ]_vars

\* A write through the index equal to the dimension has failed.
C18_Witness ==
  /\ lastOp = "operator[]"
  /\ args[1] = Len(vec)
  /\ thrown = "out_of_range"
  /\ \E i \in 1..Len(vec) : vec[i] # 0 /\ vec[i] # args[2]

\* C19: v / scalar and v /= scalar fail with an invalid_argument error when
\* scalar is zero and never fail otherwise; a failed /= leaves every
\* component as it was.
C19_DivisionByZero ==
  [][lastOp' \in {"operator/", "operator/="} =>
       /\ (thrown' = "invalid_argument") = (args'[1] = 0)
       /\ thrown' \in {"none", "invalid_argument"}
       /\ thrown' = "invalid_argument" => vec' = vec
    ]_vars

\* A vector with a non-zero component has been divided in place by zero.
C19_Witness ==
  /\ lastOp = "operator/="
  /\ args[1] = 0
  /\ thrown = "invalid_argument"
  /\ \E i \in 1..Len(vec) : vec[i] # 0

\* C20: normalized() and normalize() fail with a runtime_error exactly when
\* magnitude() is zero; a failed normalize() leaves the components as they
\* were and normalized() never modifies the receiver.
C20_NormalizeZeroMagnitude ==
  [][lastOp' \in {"normalized", "normalize"} =>
       /\ (thrown' = "runtime_error") = (Magnitude(vec) = 0)
       /\ thrown' \in {"none", "runtime_error"}
       /\ thrown' = "runtime_error" => vec' = vec
       /\ lastOp' = "normalized" => vec' = vec
    ]_vars

\* normalize() has succeeded on a vector with two non-zero components.
C20_Witness ==
  /\ lastOp = "normalize"
  /\ thrown = "none"
  /\ \E i \in 1..Len(vec) : \E j \in 1..Len(vec) : i # j /\ vec[i] # 0 /\ vec[j] # 0

\* C21: for every non-zero vector v, v.normalized().magnitude() is 1, and
\* after v.normalize() the magnitude of v is 1.
C21_NormalizedMagnitudeOne ==
  /\ (lastOp = "normalized" /\ thrown = "none") => Magnitude(ret) = 1
  /\ (lastOp = "normalize" /\ thrown = "none") => Magnitude(vec) = 1

(***************************************************************************)
(* utility::math::Vector<int, 3>: the operations on two vectors, and the   *)
(* binary and compound forms of the arithmetic.  SpecVectorPair constructs *)
(* two vectors and applies one operation to them.                          *)
(***************************************************************************)
\* The dimension cross() is enabled for.
CrossDimension == 3

\* operator+
Sum(a, b) == [i \in DOMAIN a |-> a[i] + b[i]]

\* operator-
Difference(a, b) == [i \in DOMAIN a |-> a[i] - b[i]]

\* operator*
Product(v, scalar) == [i \in DOMAIN v |-> v[i] * scalar]

RECURSIVE DotLoop(_, _, _)
\* The loop of dot(): result += _components[i] * other._components[i] for the
\* first n components.
DotLoop(a, b, n) ==
  IF n = 0 THEN 0 ELSE DotLoop(a, b, n - 1) + a[n] * b[n]

\* dot(other)
Dot(a, b) == DotLoop(a, b, Dimension(a))

\* Mutant: the second component has its terms exchanged.
Cross_SecondNegated(a, b) ==
  <<At(a, 1) * At(b, 2) - At(a, 2) * At(b, 1),
    At(a, 0) * At(b, 2) - At(a, 2) * At(b, 0),
    At(a, 0) * At(b, 1) - At(a, 1) * At(b, 0)>>

\* cross(other)
Cross(a, b) ==
  <<At(a, 1) * At(b, 2) - At(a, 2) * At(b, 1),
    At(a, 2) * At(b, 0) - At(a, 0) * At(b, 2),
    At(a, 0) * At(b, 1) - At(a, 1) * At(b, 0)>>

\* The two vectors have just been constructed; nothing was called on them yet.
PairFresh == lastOp = "Vector(values)" /\ operand # NoVector

\* a + b
OperatorAdd ==
  /\ PairFresh
  /\ VectorReturned("operator+", <<>>, Sum(vec, operand))
  /\ UNCHANGED vec

\* a - b
OperatorSubtract ==
  /\ PairFresh
  /\ VectorReturned("operator-", <<>>, Difference(vec, operand))
  /\ UNCHANGED vec

\* a * scalar
OperatorMultiply ==
  /\ PairFresh
  /\ \E scalar \in Comps :
       /\ VectorReturned("operator*", <<scalar>>, Product(vec, scalar))
       /\ UNCHANGED vec

\* a += b
OperatorAddAssign ==
  /\ PairFresh
  /\ vec' = [i \in DOMAIN vec |-> vec[i] + operand[i]]
  /\ VectorReturned("operator+=", <<>>, NoValue)

\* Mutant: the loop adds, as the one of += does.
OperatorSubtractAssign_Adds ==
  /\ PairFresh
  /\ vec' = [i \in DOMAIN vec |-> vec[i] + operand[i]]
  /\ VectorReturned("operator-=", <<>>, NoValue)

\* a -= b
OperatorSubtractAssign ==
  /\ PairFresh
  /\ vec' = [i \in DOMAIN vec |-> vec[i] - operand[i]]
  /\ VectorReturned("operator-=", <<>>, NoValue)

\* a *= scalar
OperatorMultiplyAssign ==
  /\ PairFresh
  /\ \E scalar \in Comps :
       /\ vec' = [i \in DOMAIN vec |-> vec[i] * scalar]
       /\ VectorReturned("operator*=", <<scalar>>, NoValue)

\* a.dot(b)
dot ==
  /\ PairFresh
  /\ VectorReturned("dot", <<>>, Dot(vec, operand))
  /\ UNCHANGED vec

\* a.cross(b)
cross ==
  /\ PairFresh
  /\ Dimension(vec) = CrossDimension
  /\ VectorReturned("cross", <<>>, Cross(vec, operand))
  /\ UNCHANGED vec

\* Two vectors of three components have been constructed from initializer
\* lists.
InitVectorPair ==
  /\ vec \in [1..CrossDimension -> Comps]
  /\ operand \in [1..CrossDimension -> Comps]
  /\ args = <<vec>>
  /\ lastOp = "Vector(values)"
  /\ ret = NoValue
  /\ rect = NoRect
  /\ made = NoRect
  /\ ServicesUnused
  /\ ctype = "int"
  /\ self = NoColor
  /\ other = NoColor
  /\ result = NoColor
  /\ thrown = "none"

NextVectorPair ==
  \/ OperatorAdd
  \/ OperatorSubtract
  \/ OperatorMultiply
  \/ PairFresh /\ OperatorDivide
  \/ OperatorAddAssign
  \/ OperatorSubtractAssign
  \/ OperatorMultiplyAssign
  \/ PairFresh /\ OperatorDivideAssign
  \/ dot
  \/ cross

SpecVectorPair == InitVectorPair /\ [][NextVectorPair]_vars

\* C22: for vectors a and b of dimension 3, a.cross(b).dot(a) == 0 and
\* a.cross(b).dot(b) == 0.
C22_CrossOrthogonal ==
  lastOp = "cross" => Dot(ret, vec) = 0 /\ Dot(ret, operand) = 0

\* A cross product without a zero component has been computed.
C22_Witness ==
  /\ lastOp = "cross"
  /\ \A i \in 1..CrossDimension : ret[i] # 0

\* C23: after a += b, a -= b, a *= s and (s non-zero) a /= s the vector a is
\* what a + b, a - b, a * s and a / s return for the former a; b is never
\* modified, and the binary forms modify neither operand.
C23_CompoundForms ==
  [][/\ lastOp' = "operator+=" => vec' = Sum(vec, operand)
     /\ lastOp' = "operator-=" => vec' = Difference(vec, operand)
     /\ lastOp' = "operator*=" => vec' = Product(vec, args'[1])
     /\ (lastOp' = "operator/=" /\ args'[1] # 0) =>
          vec' = Divided(vec, args'[1])
     /\ lastOp' \in {"operator+=", "operator-=", "operator*=", "operator/="} =>
          operand' = operand
     /\ lastOp' \in {"operator+", "operator-", "operator*", "operator/"} =>
          vec' = vec /\ operand' = operand
    ]_vars

\* b has been subtracted in place from a, and every component of a changed.
C23_Witness ==
  /\ lastOp = "operator-="
  /\ \A i \in 1..Len(vec) : operand[i] # 0 /\ vec[i] # 0

(***************************************************************************)
(* utility::Color<Type> for the integral component types uint8_t and int   *)
(***************************************************************************)
ColorTypes == {"uint8_t", "int"}

\* The values of a component sampled by the model.
GridLast == (254 \div GridStep) + 1
GridAt(i) == IF i * GridStep >= 255 THEN 255 ELSE i * GridStep
Grid == {GridAt(i) : i \in 0..GridLast}

\* The arguments the second Color object is constructed from: its red, green
\* and blue are three consecutive samples, so that they differ.
OtherArgs ==
  {<<GridAt(i), GridAt((i + 1) % (GridLast + 1)),
     GridAt((i + 2) % (GridLast + 1)), a>> : i \in 0..GridLast, a \in Grid}

\* Values of int outside [0,255].
Excess == {0 - e : e \in 1..MaxExcess} \cup {255 + e : e \in 1..MaxExcess}

\* The values of Type passed in as arguments.
Inputs(t) == IF t = "uint8_t" THEN Grid ELSE Grid \cup Excess

\* The least and the greatest value passed in.
EndInputs(t) == IF t = "uint8_t" THEN {0, 255} ELSE {0 - MaxExcess, 255 + MaxExcess}

\* Conversion of the int value of an expression to Type, as happens when it
\* is passed to a parameter of type Type: modulo 2^8 for uint8_t.
ToType(t, v) == IF t = "uint8_t" THEN v % 256 ELSE v

Min(a, b) == IF b < a THEN b ELSE a
Max(a, b) == IF a < b THEN b ELSE a

\* maxValue() of an integral type
maxValue == 255

\* Mutant: the upper limit of the range is not applied.
clamp_NoUpperLimit(t, v) ==
  LET value == ToType(t, v)
  IN  Max(0, value)

\* clamp(Type value), integral branch; its argument is converted to Type.
clamp(t, v) ==
  LET value == ToType(t, v)
  IN  Max(0, Min(255, value))

\* Color()
Color0 == [red |-> 0, green |-> 0, blue |-> 0, alpha |-> maxValue]

\* Color(Type red, Type green, Type blue)
ColorRGB(t, r, g, b) ==
  [red |-> clamp(t, r), green |-> clamp(t, g), blue |-> clamp(t, b),
   alpha |-> maxValue]

\* Color(Type red, Type green, Type blue, Type alpha)
ColorRGBA(t, r, g, b, a) ==
  [red |-> clamp(t, r), green |-> clamp(t, g), blue |-> clamp(t, b),
   alpha |-> clamp(t, a)]

\* Mutant: the alphas are added like the other components.
Plus_AlphaAdded(t, c, o) ==
  ColorRGBA(t, clamp(t, c.red + o.red), clamp(t, c.green + o.green),
            clamp(t, c.blue + o.blue), clamp(t, c.alpha + o.alpha))

\* operator+
Plus(t, c, o) ==
  ColorRGBA(t, clamp(t, c.red + o.red), clamp(t, c.green + o.green),
            clamp(t, c.blue + o.blue), c.alpha)

\* operator-
Minus(t, c, o) ==
  ColorRGBA(t, clamp(t, c.red - o.red), clamp(t, c.green - o.green),
            clamp(t, c.blue - o.blue), c.alpha)

\* operator*(Type scalar)
Times(t, c, scalar) ==
  ColorRGBA(t, clamp(t, c.red * scalar), clamp(t, c.green * scalar),
            clamp(t, c.blue * scalar), c.alpha)

\* Mutant: the weights of red and green are exchanged.
Luminance_WeightsExchanged(c) ==
  CDiv(587 * c.red + 299 * c.green + 114 * c.blue, 1000)

\* The value grayscale() passes to clamp, integral branch.
Luminance(c) == CDiv(299 * c.red + 587 * c.green + 114 * c.blue, 1000)

\* grayscale()
Grayscale(t, c) ==
  LET luminance == clamp(t, Luminance(c))
  IN  ColorRGBA(t, luminance, luminance, luminance, c.alpha)

\* inverted()
Inverted(t, c) ==
  ColorRGBA(t, ToType(t, maxValue - c.red), ToType(t, maxValue - c.green),
            ToType(t, maxValue - c.blue), c.alpha)

\* Mutant: t is used as given, without clamp(t).
Lerp_UnclampedT(t, c, o, tArg) ==
  LET tt == ToType(t, tArg)
      oneMinusT == ToType(t, maxValue - tt)
  IN  ColorRGBA(t,
        clamp(t, CDiv(oneMinusT * c.red + tt * o.red, maxValue)),
        clamp(t, CDiv(oneMinusT * c.green + tt * o.green, maxValue)),
        clamp(t, CDiv(oneMinusT * c.blue + tt * o.blue, maxValue)),
        clamp(t, CDiv(oneMinusT * c.alpha + tt * o.alpha, maxValue)))

\* lerp(other, t), integral branch
Lerp(t, c, o, tArg) ==
  LET tt == clamp(t, tArg)
      oneMinusT == ToType(t, maxValue - tt)
  IN  ColorRGBA(t,
        clamp(t, CDiv(oneMinusT * c.red + tt * o.red, maxValue)),
        clamp(t, CDiv(oneMinusT * c.green + tt * o.green, maxValue)),
        clamp(t, CDiv(oneMinusT * c.blue + tt * o.blue, maxValue)),
        clamp(t, CDiv(oneMinusT * c.alpha + tt * o.alpha, maxValue)))

\* Mutant: the two weights are exchanged.
BlendOver_WeightsExchanged(t, c, background) ==
  LET a == c.alpha
      oneMinusA == ToType(t, maxValue - a)
  IN  ColorRGBA(t,
        clamp(t, CDiv(oneMinusA * c.red + a * background.red, maxValue)),
        clamp(t, CDiv(oneMinusA * c.green + a * background.green, maxValue)),
        clamp(t, CDiv(oneMinusA * c.blue + a * background.blue, maxValue)),
        clamp(t, CDiv(a + oneMinusA * background.alpha, maxValue)))

\* blendOver(background), integral branch
BlendOver(t, c, background) ==
  LET a == c.alpha
      oneMinusA == ToType(t, maxValue - a)
  IN  ColorRGBA(t,
        clamp(t, CDiv(a * c.red + oneMinusA * background.red, maxValue)),
        clamp(t, CDiv(a * c.green + oneMinusA * background.green, maxValue)),
        clamp(t, CDiv(a * c.blue + oneMinusA * background.blue, maxValue)),
        clamp(t, CDiv(a + oneMinusA * background.alpha, maxValue)))

\* Mutant: the white it interpolates towards is built without the alpha.
Lighter_OpaqueWhite(t, c, factor) ==
  LET f == clamp(t, factor)
  IN  Lerp(t, c, ColorRGB(t, maxValue, maxValue, maxValue), f)

\* lighter(factor)
Lighter(t, c, factor) ==
  LET f == clamp(t, factor)
  IN  Lerp(t, c, ColorRGBA(t, maxValue, maxValue, maxValue, c.alpha), f)

\* darker(factor)
Darker(t, c, factor) ==
  LET f == clamp(t, factor)
  IN  Lerp(t, c, ColorRGBA(t, 0, 0, 0, c.alpha), f)

\* Every call of SpecColor leaves the Rectangle objects alone, and no member
\* function of Color has a throw statement.
ColorFrame ==
  UNCHANGED <<rectVars, vectorVars, serviceVars, ret>> /\ thrown' = "none"

\* A mutator was called: the value returned by an earlier call is gone.
Mutated(name, a) ==
  /\ lastOp' = name
  /\ args' = a
  /\ result' = NoColor
  /\ UNCHANGED <<ctype, other>>
  /\ ColorFrame

\* A const member function was called and returned r.
Returned(name, a, r) ==
  /\ lastOp' = name
  /\ args' = a
  /\ result' = r
  /\ UNCHANGED <<ctype, self, other>>
  /\ ColorFrame

\* setRed(red)
setRed ==
  \E v \in Inputs(ctype) :
    /\ self' = [self EXCEPT !.red = clamp(ctype, v)]
    /\ Mutated("setRed", <<v>>)

\* setGreen(green)
setGreen ==
  \E v \in Inputs(ctype) :
    /\ self' = [self EXCEPT !.green = clamp(ctype, v)]
    /\ Mutated("setGreen", <<v>>)

\* setBlue(blue)
setBlue ==
  \E v \in Inputs(ctype) :
    /\ self' = [self EXCEPT !.blue = clamp(ctype, v)]
    /\ Mutated("setBlue", <<v>>)

\* setAlpha(alpha)
setAlpha ==
  \E v \in Inputs(ctype) :
    /\ self' = [self EXCEPT !.alpha = clamp(ctype, v)]
    /\ Mutated("setAlpha", <<v>>)

\* setRGBA(red, green, blue, alpha)
setRGBA ==
  \E r \in EndInputs(ctype), g \in EndInputs(ctype),
     b \in EndInputs(ctype), a \in EndInputs(ctype) :
    /\ self' = [red |-> clamp(ctype, r), green |-> clamp(ctype, g),
                blue |-> clamp(ctype, b), alpha |-> clamp(ctype, a)]
    /\ Mutated("setRGBA", <<r, g, b, a>>)

\* *this + other
OperatorPlus == Returned("operator+", <<>>, Plus(ctype, self, other))

\* *this - other
OperatorMinus == Returned("operator-", <<>>, Minus(ctype, self, other))

\* *this * scalar
OperatorTimes ==
  \E scalar \in Inputs(ctype) :
    Returned("operator*", <<scalar>>, Times(ctype, self, scalar))

\* grayscale()
CallGrayscale == Returned("grayscale", <<>>, Grayscale(ctype, self))

\* inverted()
CallInverted == Returned("inverted", <<>>, Inverted(ctype, self))

\* lerp(other, t)
CallLerp ==
  \E tArg \in Inputs(ctype) :
    Returned("lerp", <<tArg>>, Lerp(ctype, self, other, tArg))

\* blendOver(other)
CallBlendOver == Returned("blendOver", <<>>, BlendOver(ctype, self, other))

\* lighter(factor)
CallLighter ==
  \E factor \in Inputs(ctype) :
    Returned("lighter", <<factor>>, Lighter(ctype, self, factor))

\* darker(factor)
CallDarker ==
  \E factor \in Inputs(ctype) :
    Returned("darker", <<factor>>, Darker(ctype, self, factor))

\* The two Color objects are constructed: self by one of the three
\* constructors, other by the RGBA constructor.
InitColor ==
  /\ rect = NoRect
  /\ made = NoRect
  /\ ServicesUnused
  /\ vec = NoVector
  /\ operand = NoVector
  /\ ret = NoValue
  /\ ctype \in ColorTypes
  /\ \E r \in Inputs(ctype), g \in Inputs(ctype), b \in Inputs(ctype),
        a \in Inputs(ctype) :
       \/ /\ self = ColorRGBA(ctype, r, g, b, a)
          /\ lastOp = "Color(r,g,b,a)"
          /\ args = <<r, g, b, a>>
       \/ /\ self = ColorRGB(ctype, r, g, b)
          /\ lastOp = "Color(r,g,b)"
          /\ args = <<r, g, b>>
       \/ /\ self = Color0
          /\ lastOp = "Color()"
          /\ args = <<>>
  /\ \E o \in OtherArgs :
       other = ColorRGBA(ctype, o[1], o[2], o[3], o[4])
  /\ result = NoColor
  /\ thrown = "none"

NextColor ==
  \/ setRed
  \/ setGreen
  \/ setBlue
  \/ setAlpha
  \/ setRGBA
  \/ OperatorPlus
  \/ OperatorMinus
  \/ OperatorTimes
  \/ CallGrayscale
  \/ CallInverted
  \/ CallLerp
  \/ CallBlendOver
  \/ CallLighter
  \/ CallDarker

SpecColor == InitColor /\ [][NextColor]_vars

(***************************************************************************)
(* Properties of Color                                                     *)
(***************************************************************************)
InRange(c) ==
  /\ c.red \in 0..255 /\ c.green \in 0..255
  /\ c.blue \in 0..255 /\ c.alpha \in 0..255

\* C2: every Color object, constructed, changed by a setter or returned by a
\* member function, has its four components in [0,255] (integral types), and
\* no call ends with an exception.
C2_ComponentsInRange ==
  /\ InRange(self)
  /\ InRange(other)
  /\ result # NoColor => InRange(result)
  /\ thrown = "none"

\* setRGBA of Color<int> has just been given a red above 255 and a green
\* below 0.
C2_Witness ==
  /\ ctype = "int"
  /\ lastOp = "setRGBA"
  /\ args[1] > 255 /\ args[2] < 0
  /\ self.red = 255 /\ self.green = 0

\* C3: for Color<uint8_t>, a + b has each of R,G,B equal to min(255, a.c + b.c),
\* a - b has it equal to max(0, a.c - b.c), and a * s equal to min(255, a.c * s),
\* the sum, difference and product being the mathematical ones.
C3_SaturatingArithmetic ==
  ctype = "uint8_t" =>
    /\ lastOp = "operator+" =>
         /\ result.red = Min(255, self.red + other.red)
         /\ result.green = Min(255, self.green + other.green)
         /\ result.blue = Min(255, self.blue + other.blue)
    /\ lastOp = "operator-" =>
         /\ result.red = Max(0, self.red - other.red)
         /\ result.green = Max(0, self.green - other.green)
         /\ result.blue = Max(0, self.blue - other.blue)
    /\ lastOp = "operator*" =>
         /\ result.red = Min(255, self.red * args[1])
         /\ result.green = Min(255, self.green * args[1])
         /\ result.blue = Min(255, self.blue * args[1])

ColorArithmetic == {"operator+", "operator-", "operator*"}

\* C4: the results of a + b, a - b and a * s have the alpha of a, whatever the
\* alpha of b and the scalar, and the call modifies neither a nor b.
C4_AlphaOfLeftOperand ==
  [][lastOp' \in ColorArithmetic =>
       /\ result'.alpha = self.alpha
       /\ self' = self
       /\ other' = other
    ]_vars

\* a + b has been computed with a not opaque and the alphas of a and b
\* different.
C4_Witness ==
  /\ lastOp = "operator+"
  /\ self.alpha < 255 /\ self.alpha > 0
  /\ other.alpha # self.alpha
  /\ result.alpha = self.alpha

\* C5: each of R,G,B of f.blendOver(b) is
\* (f.alpha * f.c + (255 - f.alpha) * b.c) / 255, division truncating; an
\* opaque f gives the R,G,B of f and a fully transparent f those of b.
C5_BlendOverChannels ==
  lastOp = "blendOver" =>
    LET Over(f, b) == (self.alpha * f + (255 - self.alpha) * b) \div 255
    IN  /\ result.red = Over(self.red, other.red)
        /\ result.green = Over(self.green, other.green)
        /\ result.blue = Over(self.blue, other.blue)
        /\ self.alpha = 255 =>
             /\ result.red = self.red
             /\ result.green = self.green
             /\ result.blue = self.blue
        /\ self.alpha = 0 =>
             /\ result.red = other.red
             /\ result.green = other.green
             /\ result.blue = other.blue

\* A half-transparent foreground has been blended over a background of another
\* red, and the red of the result lies strictly between the two.
C5_Witness ==
  /\ lastOp = "blendOver"
  /\ self.alpha \notin {0, 255}
  /\ result.red > Min(self.red, other.red)
  /\ result.red < Max(self.red, other.red)

\* C6: blending any foreground over a fully opaque background gives a fully
\* opaque result, and so does blending a fully opaque foreground over any
\* background.
C6_BlendOverAlpha ==
  lastOp = "blendOver" =>
    /\ other.alpha = 255 => result.alpha = 255
    /\ self.alpha = 255 => result.alpha = 255

\* C7: lerp clamps t and returns ((255 - t) * this + t * other) / 255 for each
\* of the four components; t <= 0 gives this, t >= 255 gives other, and each
\* component of the result lies between those of this and other.
C7_Lerp ==
  lastOp = "lerp" =>
    LET given == args[1]
        tt == IF given < 0 THEN 0 ELSE IF given > 255 THEN 255 ELSE given
        Mix(a, b) == ((255 - tt) * a + tt * b) \div 255
        Between(v, a, b) == Min(a, b) <= v /\ v <= Max(a, b)
    IN  /\ result = [red |-> Mix(self.red, other.red),
                     green |-> Mix(self.green, other.green),
                     blue |-> Mix(self.blue, other.blue),
                     alpha |-> Mix(self.alpha, other.alpha)]
        /\ given <= 0 => result = self
        /\ given >= 255 => result = other
        /\ Between(result.red, self.red, other.red)
        /\ Between(result.green, self.green, other.green)
        /\ Between(result.blue, self.blue, other.blue)
        /\ Between(result.alpha, self.alpha, other.alpha)

\* Color<int>::lerp has been given a t above 255 and two colours that differ
\* in every component.
C7_Witness ==
  /\ ctype = "int"
  /\ lastOp = "lerp"
  /\ args[1] > 255
  /\ self.red # other.red /\ self.green # other.green
  /\ self.blue # other.blue /\ self.alpha # other.alpha
  /\ result = other

\* C8: lighter(f) and darker(f) keep the alpha; no channel of lighter(f) is
\* below, and none of darker(f) above, the channel of the receiver; a factor
\* of 0 returns the R,G,B unchanged, lighter(255) is white and darker(255)
\* is black.
C8_LighterDarker ==
  /\ lastOp = "lighter" =>
       /\ result.alpha = self.alpha
       /\ result.red >= self.red
       /\ result.green >= self.green
       /\ result.blue >= self.blue
       /\ args[1] = 0 => result = self
       /\ args[1] = 255 =>
            result.red = 255 /\ result.green = 255 /\ result.blue = 255
  /\ lastOp = "darker" =>
       /\ result.alpha = self.alpha
       /\ result.red <= self.red
       /\ result.green <= self.green
       /\ result.blue <= self.blue
       /\ args[1] = 0 => result = self
       /\ args[1] = 255 =>
            result.red = 0 /\ result.green = 0 /\ result.blue = 0

\* lighter has been called with a factor strictly inside the range on a
\* colour that is not opaque, and the red went up.
C8_Witness ==
  /\ lastOp = "lighter"
  /\ args[1] > 0 /\ args[1] < 255
  /\ self.alpha < 255
  /\ result.red > self.red

\* C9: grayscale() returns red = green = blue = the luminance
\* (299*R + 587*G + 114*B) / 1000, division truncating, which lies in [0,255]
\* before clamp is applied, with the alpha of the receiver, and does not
\* modify the receiver.
C9_Grayscale ==
  [][lastOp' = "grayscale" =>
       LET lum == (299 * self.red + 587 * self.green + 114 * self.blue) \div 1000
       IN  /\ lum \in 0..255
           /\ result' = [red |-> lum, green |-> lum, blue |-> lum,
                         alpha |-> self.alpha]
           /\ self' = self
    ]_vars

\* grayscale() has been called on a colour that is not opaque and whose red
\* and green differ, and the luminance is neither 0 nor 255.
C9_Witness ==
  /\ lastOp = "grayscale"
  /\ self.red # self.green
  /\ self.alpha < 255
  /\ result.red \notin {0, 255}
  /\ result.alpha = self.alpha

(***************************************************************************)
(* utility::Singleton<Type>.  Type is int (operator! is "equals zero") or  *)
(* std::stringstream (operator! is fail()); an instance is a record of its *)
(* data (the number, or the text in the buffer) and its fail bit.          *)
(***************************************************************************)
SingletonTypes == {"int", "stringstream"}

\* The values an object of type t can be given through a reference to it.
Values(t) ==
  IF t = "int"
  THEN {[data |-> d, fail |-> FALSE] : d \in 0..MaxData}
  ELSE {[data |-> d, fail |-> f] : d \in 0..MaxData, f \in BOOLEAN}

\* Type()
DefaultInstance == [data |-> 0, fail |-> FALSE]

\* !singleton._instance
NotInstance(t, instance) ==
  IF t = "int" THEN instance.data = 0 ELSE instance.fail

\* static Singleton<Type> singleton: initialized by the first call only.
StaticLocal == IF singleton = NoSingleton
               THEN [instance |-> DefaultInstance]
               ELSE singleton

SingletonFrame ==
  UNCHANGED <<rectVars, colorVars, vectorVars, loggableVars, scalarVars,
              fileVars, stype, thrown>>

\* getInstance(), called by the only thread of the program.
getInstance ==
  /\ singleton' = IF NotInstance(stype, StaticLocal.instance)
                  THEN [instance |-> DefaultInstance]
                  ELSE StaticLocal
  /\ ret' = singleton'.instance
  /\ lastOp' = "getInstance"
  /\ args' = <<>>
  /\ UNCHANGED pc
  /\ SingletonFrame

\* The caller assigns to the object through the reference getInstance returned.
WriteInstance ==
  /\ singleton # NoSingleton
  /\ \E v \in Values(stype) :
       /\ singleton' = [instance |-> v]
       /\ args' = <<v>>
  /\ lastOp' = "write"
  /\ ret' = NoValue
  /\ UNCHANGED pc
  /\ SingletonFrame

InitSingleton ==
  /\ stype \in SingletonTypes
  /\ singleton = NoSingleton
  /\ pc = [t \in Threads |-> "idle"]
  /\ LoggableUnused
  /\ ScalarUnused
  /\ FileLoggerUnused
  /\ rect = NoRect
  /\ made = NoRect
  /\ vec = NoVector
  /\ operand = NoVector
  /\ ret = NoValue
  /\ ctype = "int"
  /\ self = NoColor
  /\ other = NoColor
  /\ result = NoColor
  /\ thrown = "none"
  /\ lastOp = "start"
  /\ args = <<>>

NextSingleton ==
  \/ getInstance
  \/ WriteInstance

SpecSingleton == InitSingleton /\ [][NextSingleton]_vars

\* C24: every getInstance() call returns the same instance, created once, and
\* state written through the reference is what every later getInstance() call
\* gives: no call replaces or resets the instance.
C24_OneInstance ==
  [][(lastOp' = "getInstance" /\ singleton # NoSingleton) =>
       /\ singleton'.instance = singleton.instance
       /\ ret' = singleton.instance
    ]_vars

(***************************************************************************)
(* getInstance() called by several threads, statement by statement.        *)
(***************************************************************************)
ThreadFrame ==
  UNCHANGED <<rectVars, colorVars, vectorVars, loggableVars, scalarVars,
              fileVars, stype, thrown, ret, lastOp, args>>

\* The thread is in no call of getInstance.
Outside(t) == pc[t] \in {"idle", "holding"}

\* static Singleton<Type> singleton; the initialization runs once, and the
\* threads that arrive meanwhile wait for it.
StaticInit(t) ==
  /\ Outside(t)
  /\ singleton' = StaticLocal
  /\ pc' = [pc EXCEPT ![t] = "test"]
  /\ ThreadFrame

\* if (!singleton._instance)
TestInstance(t) ==
  /\ pc[t] = "test"
  /\ pc' = [pc EXCEPT ![t] = IF NotInstance(stype, singleton.instance)
                             THEN "assign" ELSE "return"]
  /\ UNCHANGED singleton
  /\ ThreadFrame

\* singleton._instance = Type();
AssignInstance(t) ==
  /\ pc[t] = "assign"
  /\ singleton' = [instance |-> DefaultInstance]
  /\ pc' = [pc EXCEPT ![t] = "return"]
  /\ ThreadFrame

\* return singleton._instance;
ReturnInstance(t) ==
  /\ pc[t] = "return"
  /\ pc' = [pc EXCEPT ![t] = "holding"]
  /\ UNCHANGED singleton
  /\ ThreadFrame

\* The thread assigns to the object through the reference it holds.
WriteHeld(t) ==
  /\ pc[t] = "holding"
  /\ \E v \in Values(stype) : singleton' = [instance |-> v]
  /\ UNCHANGED pc
  /\ ThreadFrame

NextSingletonThreads ==
  \E t \in Threads :
    \/ StaticInit(t)
    \/ TestInstance(t)
    \/ AssignInstance(t)
    \/ ReturnInstance(t)
    \/ WriteHeld(t)

SpecSingletonThreads == InitSingleton /\ [][NextSingletonThreads]_vars

\* C25: when several threads call getInstance() concurrently, no call writes
\* to the instance while the call of another thread reads or writes it.
C25_ThreadSafe ==
  \A t \in Threads : \A u \in Threads \ {t} :
    ~(pc[t] = "assign" /\ pc[u] \in {"test", "assign"})

(***************************************************************************)
(* utility::logging::Loggable.  The loggers are objects that outlive the   *)
(* Loggable, as setLogger requires; what a call does to them is the list   *)
(* of member function calls it makes on them.                              *)
(***************************************************************************)
LogLevels == {"DEBUG", "INFO", "WARNING", "ERROR"}
Messages == 1..MaxMsg

\* The call of `method` with arguments a on the logger l.
Call(l, method, a) == [to |-> l, method |-> method, args |-> a]

LoggableFrame ==
  UNCHANGED <<rectVars, colorVars, vectorVars, singletonVars, scalarVars,
              fileVars, thrown>>

\* A member function that is not a logging call ran.
LoggableDid(name, a, v) ==
  /\ lastOp' = name
  /\ args' = a
  /\ ret' = v
  /\ delivered' = <<>>
  /\ LoggableFrame

\* if (_logger) { _logger->method(a...); }
Forward(method, a) ==
  /\ delivered' = IF logger # nullptr THEN <<Call(logger, method, a)>> ELSE <<>>
  /\ lastOp' = method
  /\ args' = a
  /\ ret' = NoValue
  /\ UNCHANGED logger
  /\ LoggableFrame

\* setLogger(logger)
setLogger ==
  \E l \in Loggers \cup {nullptr} :
    /\ logger' = l
    /\ LoggableDid("setLogger", <<l>>, NoValue)

\* getLogger()
getLogger ==
  /\ LoggableDid("getLogger", <<>>, logger)
  /\ UNCHANGED logger

\* hasLogger()
hasLogger ==
  /\ LoggableDid("hasLogger", <<>>, logger # nullptr)
  /\ UNCHANGED logger

\* Mutant: debug forwards to info.
debug_ForwardsToInfo ==
  \E message \in Messages :
    /\ delivered' = IF logger # nullptr
                    THEN <<Call(logger, "info", <<message>>)>>
                    ELSE <<>>
    /\ lastOp' = "debug"
    /\ args' = <<message>>
    /\ ret' = NoValue
    /\ UNCHANGED logger
    /\ LoggableFrame

\* debug(message)
debug == \E message \in Messages : Forward("debug", <<message>>)

\* info(message)
info == \E message \in Messages : Forward("info", <<message>>)

\* warning(message)
warning == \E message \in Messages : Forward("warning", <<message>>)

\* error(message)
error == \E message \in Messages : Forward("error", <<message>>)

\* log(level, message)
log ==
  \E level \in LogLevels, message \in Messages :
    Forward("log", <<level, message>>)

\* A Loggable has been constructed, by Loggable() or by Loggable(logger).
InitLoggable ==
  /\ logger \in Loggers \cup {nullptr}
  /\ delivered = <<>>
  /\ SingletonUnused
  /\ ScalarUnused
  /\ FileLoggerUnused
  /\ rect = NoRect
  /\ made = NoRect
  /\ vec = NoVector
  /\ operand = NoVector
  /\ ret = NoValue
  /\ ctype = "int"
  /\ self = NoColor
  /\ other = NoColor
  /\ result = NoColor
  /\ thrown = "none"
  /\ lastOp = "Loggable"
  /\ args = <<logger>>

NextLoggable ==
  \/ setLogger
  \/ getLogger
  \/ hasLogger
  \/ debug
  \/ info
  \/ warning
  \/ error
  \/ log

SpecLoggable == InitLoggable /\ [][NextLoggable]_vars

LogCalls == {"debug", "info", "warning", "error", "log"}

\* C26: each debug/info/warning/error/log call is forwarded exactly once, as
\* the same call with the same level and message, to the logger most recently
\* given to setLogger or the constructor; with no logger, or after
\* setLogger(nullptr), it reaches no logger; and hasLogger() is true exactly
\* when the current logger is not null.
C26_LoggableForwards ==
  [][/\ lastOp' = "setLogger" => logger' = args'[1]
     /\ lastOp' # "setLogger" => logger' = logger
     /\ (lastOp' \in LogCalls /\ logger # nullptr) =>
          delivered' = <<[to |-> logger, method |-> lastOp', args |-> args']>>
     /\ (lastOp' \in LogCalls /\ logger = nullptr) => delivered' = <<>>
     /\ lastOp' \notin LogCalls => delivered' = <<>>
     /\ lastOp' = "hasLogger" => ret' = (logger # nullptr)
    ]_vars

\* A debug message has been forwarded to the last of the loggers.
C26_Witness ==
  /\ lastOp = "debug"
  /\ logger = NumLoggers
  /\ Len(delivered) = 1
  /\ delivered[1].to = NumLoggers
  /\ delivered[1].args = <<MaxMsg>>

(***************************************************************************)
(* utility::Rectangle<int>, the rectangle with four scalar fields          *)
(* (headers/rectangle.hpp), and SpecRectanglePair, which constructs it and *)
(* a utility::math::Rectangle<int> from the same arguments and makes the   *)
(* same calls on both.                                                     *)
(***************************************************************************)
ScalarRect(px, py, w, h) == [x |-> px, y |-> py, width |-> w, height |-> h]

\* The value of the expression Rectangle(x, y, width, height): the object, or
\* none when the constructor throws.
ScalarConstructed(px, py, w, h) ==
  IF w < 0 \/ h < 0 THEN NoScalarRect ELSE ScalarRect(px, py, w, h)

ScalarRight(r) == r.x + r.width
ScalarBottom(r) == r.y + r.height
ScalarCenterX(r) == r.x + CDiv(r.width, 2)
ScalarCenterY(r) == r.y + CDiv(r.height, 2)
ScalarArea(r) == r.width * r.height
ScalarPerimeter(r) == 2 * (r.width + r.height)

\* Mutant: the right and bottom edges are excluded.
ScalarContains_HalfOpen(r, px, py) ==
  px >= r.x /\ px < ScalarRight(r) /\ py >= r.y /\ py < ScalarBottom(r)

\* contains(px, py)
ScalarContains(r, px, py) ==
  px >= r.x /\ px <= ScalarRight(r) /\ py >= r.y /\ py <= ScalarBottom(r)

\* intersects(other)
ScalarIntersects(r, o) ==
  ~(\/ r.x > ScalarRight(o) \/ ScalarRight(r) < o.x
    \/ r.y > ScalarBottom(o) \/ ScalarBottom(r) < o.y)

\* containsRectangle(other)
ScalarContainsRectangle(r, o) ==
  /\ o.x >= r.x /\ ScalarRight(o) <= ScalarRight(r)
  /\ o.y >= r.y /\ ScalarBottom(o) <= ScalarBottom(r)

\* operator==
ScalarEquals(r, o) ==
  r.x = o.x /\ r.y = o.y /\ r.width = o.width /\ r.height = o.height

\* The rectangle scale(factor) leaves behind when factor >= 0.
ScalarScaledInPlace(r, factor) ==
  LET cx == ScalarCenterX(r)
      cy == ScalarCenterY(r)
      w == r.width * factor
      h == r.height * factor
  IN  ScalarRect(cx - CDiv(w, 2), cy - CDiv(h, 2), w, h)

\* What scaled(factor) returns when factor >= 0.
ScalarScaled(r, factor) ==
  LET cx == ScalarCenterX(r)
      cy == ScalarCenterY(r)
      newWidth == r.width * factor
      newHeight == r.height * factor
  IN  ScalarConstructed(cx - CDiv(newWidth, 2), cy - CDiv(newHeight, 2),
                        newWidth, newHeight)

\* translated(dx, dy)
ScalarTranslated(r, dx, dy) ==
  ScalarConstructed(r.x + dx, r.y + dy, r.width, r.height)

\* area() of utility::math::Rectangle
area(r) == At(r.size, 0) * At(r.size, 1)

\* perimeter() of utility::math::Rectangle
perimeter(r) == 2 * (At(r.size, 0) + At(r.size, 1))

\* The utility::Rectangle constructed from the arguments that give r.
AsScalar(r) == ScalarRect(x(r), y(r), width(r), height(r))

PairFrame ==
  UNCHANGED <<colorVars, vectorVars, singletonVars, loggableVars, fileVars>>

\* The same member function was called on both rectangles, with arguments a;
\* the calls left the objects r and s and ended with the exceptions e and f.
BothCalled(name, a, r, e, s, f) ==
  /\ lastOp' = name
  /\ args' = a
  /\ rect' = r
  /\ thrown' = e
  /\ srect' = s
  /\ sthrown' = f
  /\ made' = NoRect
  /\ smade' = NoScalarRect
  /\ ret' = NoValue
  /\ PairFrame

\* The same const member function was called on both rectangles; the calls
\* returned the rectangles r and s or threw constructing them.
BothReturned(name, a, r, s) ==
  /\ lastOp' = name
  /\ args' = a
  /\ made' = r
  /\ thrown' = IF r = NoRect THEN "invalid_argument" ELSE "none"
  /\ smade' = s
  /\ sthrown' = IF s = NoScalarRect THEN "invalid_argument" ELSE "none"
  /\ ret' = NoValue
  /\ UNCHANGED <<rect, srect>>
  /\ PairFrame

BothQueries == {"contains", "intersects", "containsRectangle", "operator=="}

\* Both rectangles exist; a sequence of calls ends with the query made.
BothConstructed ==
  rect # NoRect /\ srect # NoScalarRect /\ lastOp \notin BothQueries

\* setX(x) on both
BothSetX ==
  /\ BothConstructed
  /\ \E v \in Coords :
       BothCalled("setX", <<v>>,
                  [rect EXCEPT !.position[1] = v], "none",
                  [srect EXCEPT !.x = v], "none")

\* setY(y) on both
BothSetY ==
  /\ BothConstructed
  /\ \E v \in Coords :
       BothCalled("setY", <<v>>,
                  [rect EXCEPT !.position[2] = v], "none",
                  [srect EXCEPT !.y = v], "none")

\* setWidth(width) on both
BothSetWidth ==
  /\ BothConstructed
  /\ \E v \in Dims :
       BothCalled("setWidth", <<v>>,
                  IF NegativeDimension(v) THEN rect
                  ELSE [rect EXCEPT !.size[1] = v],
                  IF NegativeDimension(v) THEN "invalid_argument" ELSE "none",
                  IF v < 0 THEN srect ELSE [srect EXCEPT !.width = v],
                  IF v < 0 THEN "invalid_argument" ELSE "none")

\* setHeight(height) on both
BothSetHeight ==
  /\ BothConstructed
  /\ \E v \in Dims :
       BothCalled("setHeight", <<v>>,
                  IF NegativeDimension(v) THEN rect
                  ELSE [rect EXCEPT !.size[2] = v],
                  IF NegativeDimension(v) THEN "invalid_argument" ELSE "none",
                  IF v < 0 THEN srect ELSE [srect EXCEPT !.height = v],
                  IF v < 0 THEN "invalid_argument" ELSE "none")

\* translate(dx, dy) on both
BothTranslate ==
  /\ BothConstructed
  /\ \E dx \in Coords, dy \in Coords :
       /\ BothCalled("translate", <<dx, dy>>,
                     [rect EXCEPT !.position[1] = @ + dx, !.position[2] = @ + dy],
                     "none",
                     [srect EXCEPT !.x = @ + dx, !.y = @ + dy], "none")
       /\ InBox(rect')

\* scale(factor) on both
BothScale ==
  /\ BothConstructed
  /\ \E factor \in Factors :
       /\ BothCalled("scale", <<factor>>,
                     IF NegativeFactor(factor) THEN rect
                     ELSE ScaledInPlace(rect, factor),
                     IF NegativeFactor(factor) THEN "invalid_argument" ELSE "none",
                     IF factor < 0 THEN srect
                     ELSE ScalarScaledInPlace(srect, factor),
                     IF factor < 0 THEN "invalid_argument" ELSE "none")
       /\ InBox(rect')

\* scaled(factor) on both
BothScaled ==
  /\ BothConstructed
  /\ \E factor \in Factors :
       BothReturned("scaled", <<factor>>,
                    IF NegativeFactor(factor) THEN NoRect
                    ELSE Scaled(rect, factor),
                    IF factor < 0 THEN NoScalarRect
                    ELSE ScalarScaled(srect, factor))

\* translated(offset) on the one, translated(dx, dy) on the other
BothTranslated ==
  /\ BothConstructed
  /\ \E dx \in Coords, dy \in Coords :
       BothReturned("translated", <<dx, dy>>,
                    Translated(rect, Vec2(dx, dy)),
                    ScalarTranslated(srect, dx, dy))

\* Both rectangles have just been constructed.  The queries are functions of
\* the fields alone, so they are asked of the rectangles as constructed.
BothFresh == BothConstructed /\ lastOp = "Rectangle(x,y,width,height)"

\* The same query was asked of both rectangles and answered v and w.
BothAnswered(name, a, v, w) ==
  /\ lastOp' = name
  /\ args' = a
  /\ ret' = <<v, w>>
  /\ made' = NoRect
  /\ smade' = NoScalarRect
  /\ thrown' = "none"
  /\ sthrown' = "none"
  /\ UNCHANGED <<rect, srect>>
  /\ PairFrame

\* contains(point) on the one, contains(px, py) on the other
BothContains ==
  /\ BothFresh
  /\ \E px \in PointCoords, py \in PointCoords :
       BothAnswered("contains", <<px, py>>,
                    Contains(rect, Vec2(px, py)),
                    ScalarContains(srect, px, py))

\* intersects(other) on both, other constructed from the same arguments
BothIntersects ==
  /\ BothFresh
  /\ \E o \in BoxRects :
       BothAnswered("intersects", <<o>>,
                    Intersects(rect, o),
                    ScalarIntersects(srect, AsScalar(o)))

\* containsRectangle(other) on both
BothContainsRectangle ==
  /\ BothFresh
  /\ \E o \in BoxRects :
       BothAnswered("containsRectangle", <<o>>,
                    ContainsRectangle(rect, o),
                    ScalarContainsRectangle(srect, AsScalar(o)))

\* operator==(other) on both
BothEquals ==
  /\ BothFresh
  /\ \E o \in BoxRects :
       BothAnswered("operator==", <<o>>,
                    Equals(rect, o),
                    ScalarEquals(srect, AsScalar(o)))

\* Both rectangles have been constructed from the same x, y, width, height.
InitRectanglePair ==
  /\ \E px \in Coords, py \in Coords, w \in Dims, h \in Dims :
       /\ rect = Constructed(px, py, w, h)
       /\ srect = ScalarConstructed(px, py, w, h)
       /\ args = <<px, py, w, h>>
  /\ thrown = IF rect = NoRect THEN "invalid_argument" ELSE "none"
  /\ sthrown = IF srect = NoScalarRect THEN "invalid_argument" ELSE "none"
  /\ lastOp = "Rectangle(x,y,width,height)"
  /\ made = NoRect
  /\ smade = NoScalarRect
  /\ SingletonUnused
  /\ LoggableUnused
  /\ FileLoggerUnused
  /\ vec = NoVector
  /\ operand = NoVector
  /\ ret = NoValue
  /\ ctype = "int"
  /\ self = NoColor
  /\ other = NoColor
  /\ result = NoColor

NextRectanglePair ==
  \/ BothSetX
  \/ BothSetY
  \/ BothSetWidth
  \/ BothSetHeight
  \/ BothTranslate
  \/ BothScale
  \/ BothScaled
  \/ BothTranslated
  \/ BothContains
  \/ BothIntersects
  \/ BothContainsRectangle
  \/ BothEquals

SpecRectanglePair == InitRectanglePair /\ [][NextRectanglePair]_vars

\* The two rectangles report the same through every accessor.
SameObservations(r, s) ==
  /\ x(r) = s.x /\ y(r) = s.y
  /\ width(r) = s.width /\ height(r) = s.height
  /\ right(r) = ScalarRight(s) /\ bottom(r) = ScalarBottom(s)
  /\ centerX(r) = ScalarCenterX(s) /\ centerY(r) = ScalarCenterY(s)
  /\ area(r) = ScalarArea(s) /\ perimeter(r) = ScalarPerimeter(s)

\* C27: constructed from the same (x, y, width, height) and given the same
\* calls, utility::Rectangle and utility::math::Rectangle fail on the same
\* calls and report the same through every accessor and query.
C27_RectanglesEquivalent ==
  /\ thrown = sthrown
  /\ (rect = NoRect) = (srect = NoScalarRect)
  /\ (made = NoRect) = (smade = NoScalarRect)
  /\ rect # NoRect => SameObservations(rect, srect)
  /\ made # NoRect => SameObservations(made, smade)
  /\ lastOp \in BothQueries => ret[1] = ret[2]

\* Both rectangles have been scaled from width 1 to width 3, which moved them.
C27_Witness ==
  /\ lastOp = "scale"
  /\ args = <<3>>
  /\ thrown = "none" /\ sthrown = "none"
  /\ srect.width = 3 /\ width(rect) = 3
  /\ srect.height > 0

(***************************************************************************)
(* utility::logging::FileLogger: construction, destruction, moves and the  *)
(* logging calls.  Each of the two slots holds one FileLogger object or    *)
(* none; written[f] counts the lines written to file f since it was last   *)
(* truncated, opened[f] the streams that are open on it.                   *)
(***************************************************************************)

\* The std::ofstream that is not associated with a file.
Closed == 0

\* The empty std::string.
EmptyPath == 0

\* A path at which no file can be opened.
Unopenable == NumFiles + 1

Paths == Files \cup {Unopenable}

\* The names a logger is given; "" is the name it is constructed with.
Names == {"", "app"}

FileLoggerObject(stream, path, name) ==
  [stream |-> stream, path |-> path, name |-> name]

\* _fileStream.is_open()
IsOpen(l) == l.stream # Closed

\* _fileStream.open(_filePath, mode): the stream is afterwards open on the file
\* at the path, or not open.
Open(path) == IF path \in Files THEN path ELSE Closed

\* _fileStream.close(), as the open streams of the files see it.
Close(streams, l) ==
  IF IsOpen(l) THEN [streams EXCEPT ![l.stream] = @ - 1] ELSE streams

FileFrame ==
  UNCHANGED <<rectVars, colorVars, vectorVars, singletonVars, loggableVars,
              scalarVars>>

\* A member function was called with arguments a; it ended with the exception
\* e, or returned v.
FileLoggerDid(name, a, e, v) ==
  /\ lastOp' = name
  /\ args' = a
  /\ thrown' = e
  /\ ret' = v
  /\ FileFrame

\* The body of both constructors: the object is constructed in slot s.
Construct(s, path, name, append, op, a) ==
  /\ floggers[s] = NoFileLogger
  /\ IF ~IsOpen(FileLoggerObject(Open(path), path, name))
       THEN /\ UNCHANGED fileVars
            /\ FileLoggerDid(op, a, "runtime_error", NoValue)
       ELSE /\ floggers' =
                 [floggers EXCEPT ![s] = FileLoggerObject(Open(path), path, name)]
            /\ written' = IF append THEN written
                                    ELSE [written EXCEPT ![Open(path)] = 0]
            /\ opened' = [opened EXCEPT ![Open(path)] = @ + 1]
            /\ FileLoggerDid(op, a, "none", NoValue)

\* FileLogger(filePath, append)
FileLoggerPath ==
  \E s \in Slots, path \in Paths, append \in BOOLEAN :
    Construct(s, path, "", append, "FileLogger(filePath, append)",
              <<s, path, append>>)

\* FileLogger(filePath, name, append)
FileLoggerPathName ==
  \E s \in Slots, path \in Paths, append \in BOOLEAN :
    Construct(s, path, "app", append, "FileLogger(filePath, name, append)",
              <<s, path, "app", append>>)

\* ~FileLogger()
FileLoggerDestroy ==
  \E s \in Slots :
    /\ floggers[s] # NoFileLogger
    /\ floggers' = [floggers EXCEPT ![s] = NoFileLogger]
    /\ opened' = Close(opened, floggers[s])
    /\ UNCHANGED written
    /\ FileLoggerDid("~FileLogger", <<s>>, "none", NoValue)

\* What a std::string moved from may hold: what it held, or nothing.
MovedFrom(path) == {path, EmptyPath}

\* Mutant: the source keeps its stream.
FileLoggerMove_SourceKeepsStream ==
  \E d \in Slots, s \in Slots :
    /\ d # s
    /\ floggers[d] = NoFileLogger
    /\ floggers[s] # NoFileLogger
    /\ \E p \in MovedFrom(floggers[s].path) :
         floggers' =
           [floggers EXCEPT
              ![d] = FileLoggerObject(floggers[s].stream, floggers[s].path, ""),
              ![s] = FileLoggerObject(floggers[s].stream, p, floggers[s].name)]
    /\ UNCHANGED <<written, opened>>
    /\ FileLoggerDid("FileLogger(other)", <<d, s>>, "none", NoValue)

\* FileLogger(FileLogger &&other): the object is constructed in slot d from
\* the one in slot s; the Logger base is default constructed.
FileLoggerMove ==
  \E d \in Slots, s \in Slots :
    /\ d # s
    /\ floggers[d] = NoFileLogger
    /\ floggers[s] # NoFileLogger
    /\ \E p \in MovedFrom(floggers[s].path) :
         floggers' =
           [floggers EXCEPT
              ![d] = FileLoggerObject(floggers[s].stream, floggers[s].path, ""),
              ![s] = FileLoggerObject(Closed, p, floggers[s].name)]
    /\ UNCHANGED <<written, opened>>
    /\ FileLoggerDid("FileLogger(other)", <<d, s>>, "none", NoValue)

\* operator=(FileLogger &&other): the object in slot d is assigned the one in
\* slot s; the Logger base is left alone.
OperatorMoveAssign ==
  \E d \in Slots, s \in Slots :
    /\ floggers[d] # NoFileLogger
    /\ floggers[s] # NoFileLogger
    /\ IF d = s
         THEN UNCHANGED fileVars
         ELSE /\ \E p \in MovedFrom(floggers[s].path) \cup {floggers[d].path} :
                   floggers' =
                     [floggers EXCEPT
                        ![d] = FileLoggerObject(floggers[s].stream,
                                                floggers[s].path,
                                                floggers[d].name),
                        ![s] = FileLoggerObject(Closed, p, floggers[s].name)]
              /\ opened' = Close(opened, floggers[d])
              /\ UNCHANGED written
    /\ FileLoggerDid("operator=(other)", <<d, s>>, "none", NoValue)

\* log(level, message) on the object in slot s: one line is written when the
\* stream is open.
WriteLine(s, name, a) ==
  /\ floggers[s] # NoFileLogger
  /\ IsOpen(floggers[s]) => written[floggers[s].stream] < MaxLines
  /\ written' = IF IsOpen(floggers[s])
                  THEN [written EXCEPT ![floggers[s].stream] = @ + 1]
                  ELSE written
  /\ UNCHANGED <<floggers, opened>>
  /\ FileLoggerDid(name, a, "none", NoValue)

\* debug(message)
FileLoggerDebug == \E s \in Slots : WriteLine(s, "debug", <<s>>)

\* info(message)
FileLoggerInfo == \E s \in Slots : WriteLine(s, "info", <<s>>)

\* warning(message)
FileLoggerWarning == \E s \in Slots : WriteLine(s, "warning", <<s>>)

\* error(message)
FileLoggerError == \E s \in Slots : WriteLine(s, "error", <<s>>)

\* log(level, message)
FileLoggerLog ==
  \E s \in Slots, level \in LogLevels : WriteLine(s, "log", <<s, level>>)

\* getFilePath()
getFilePath ==
  \E s \in Slots :
    /\ floggers[s] # NoFileLogger
    /\ UNCHANGED fileVars
    /\ FileLoggerDid("getFilePath", <<s>>, "none", floggers[s].path)

\* isOpen()
isOpen ==
  \E s \in Slots :
    /\ floggers[s] # NoFileLogger
    /\ UNCHANGED fileVars
    /\ FileLoggerDid("isOpen", <<s>>, "none", IsOpen(floggers[s]))

InitFileLogger ==
  /\ FileLoggerUnused
  /\ SingletonUnused
  /\ LoggableUnused
  /\ ScalarUnused
  /\ rect = NoRect
  /\ made = NoRect
  /\ vec = NoVector
  /\ operand = NoVector
  /\ ret = NoValue
  /\ ctype = "int"
  /\ self = NoColor
  /\ other = NoColor
  /\ result = NoColor
  /\ thrown = "none"
  /\ lastOp = "main"
  /\ args = <<>>

NextFileLogger ==
  \/ FileLoggerPath
  \/ FileLoggerPathName
  \/ FileLoggerDestroy
  \/ FileLoggerMove
  \/ OperatorMoveAssign
  \/ FileLoggerDebug
  \/ FileLoggerInfo
  \/ FileLoggerWarning
  \/ FileLoggerError
  \/ FileLoggerLog
  \/ getFilePath
  \/ isOpen

SpecFileLogger == InitFileLogger /\ [][NextFileLogger]_vars

FileLoggerConstructors ==
  {"FileLogger(filePath, append)", "FileLogger(filePath, name, append)"}

\* The streams counted as open on each file are those of the FileLogger
\* objects that are open on it.
StreamsAccounted ==
  \A f \in Files :
    opened[f] =
      Cardinality({s \in Slots : /\ floggers[s] # NoFileLogger
                                 /\ floggers[s].stream = f})

====
